---- MODULE Spec2Model ----
(***************************************************************************)
(* A model of the two filename tools of rename-tool-for-xiaoshuo:          *)
(*   src/chinese_to_arabic.py  spelled-out numeral -> decimal digits       *)
(*   src/pad_chapters.py       chapter number zero-padded to 4 digits      *)
(*                                                                         *)
(* A filename is a sequence of characters.  A character is written as a    *)
(* short ASCII string:                                                     *)
(*   "di"                      U+7B2C, the leading keyword                 *)
(*   "0" .. "9"                the decimal digits                          *)
(*   "ling" "yi1" "er" "san" "si" "wu" "liu" "qi" "ba" "jiu"               *)
(*                             the numeral symbols 0 .. 9                  *)
(*   "shi" "bai" "qian" "wan" "yi4"                                        *)
(*                             the multipliers 10, 100, 1000, 10^4, 10^8   *)
(*   "zhang" "jie" "ji" "hua" "bu" "fen" "juan"                            *)
(*                             the unit keyword characters                 *)
(*   "_" "-" " "               the separators                              *)
(*   "x"                       any other character                         *)
(*   ".txt" ".mp3" ".jpg"      a file extension, kept as one character     *)
(***************************************************************************)
EXTENDS Integers, Sequences, FiniteSets, TLC

VARIABLES
    fname,          \* engines: the filename given to the engine
    outs,           \* engines: the results of its successive applications
    value,          \* numerals: the integer a numeral is spelled from
    numeral,        \* numerals: the spelled-out numeral
    arabic,         \* numerals: what chinese_to_arabic returned for it
    tool,           \* run: "numeral" (chinese_to_arabic.py) or "pad" (pad_chapters.py)
    posix,          \* run: os.rename replaces an existing destination (POSIX) or raises (Windows)
    valid_dir,      \* run: what is_valid_directory(target_dir) returns
    dry_run,        \* run: args.dry_run
    workers,        \* run: args.workers
    exclude,        \* run: the directory's names that match an --exclude pattern
    denied,         \* run: the names the operating system refuses to rename
    fs0,            \* run: the names in the directory when the run starts
    fs,             \* run: the directory, a set of <<name, original name of the file it holds>>
    file_list,      \* run: the work list of convert_filenames / pad_filenames
    tstate,         \* run: each task's state in the pool
    result,         \* run: each task's returned tuple
    consumed,       \* run: how many results the dispatcher has read
    changed_count,  \* run: changed_count
    error_count,    \* run: error_count
    log_entries,    \* run: log_entries
    returned,       \* run: the tuple convert_filenames / pad_filenames returned
    pc,             \* run: where main is
    exit_code       \* run: the process's exit status, -1 while it runs

engine_vars == <<fname, outs>>
conv_vars == <<value, numeral, arabic>>
run_vars == <<tool, posix, valid_dir, dry_run, workers, exclude, denied, fs0, fs, file_list,
              tstate, result, consumed, changed_count, error_count, log_entries,
              returned, pc, exit_code>>
vars == <<fname, outs, value, numeral, arabic, tool, posix, valid_dir, dry_run, workers,
          exclude, denied, fs0, fs, file_list, tstate, result, consumed, changed_count,
          error_count, log_entries, returned, pc, exit_code>>

(***************************************************************************)
(* Bounds of the model.                                                    *)
(***************************************************************************)
MaxParts == 3
MaxDigits == 5
MaxApply == 2
MaxValue == 123
MaxFiles == 3
MaxWorkers == 2

(***************************************************************************)
(* Strings.                                                                *)
(***************************************************************************)
Digits == {"0", "1", "2", "3", "4", "5", "6", "7", "8", "9"}

Min(S) == CHOOSE m \in S : \A n \in S : m <= n

\* s[i:] of Python, i counted from 1.
Drop(s, i) == SubSeq(s, i, Len(s))

\* s.startswith(t, i), i counted from 1.
StartsAt(s, t, i) == i + Len(t) - 1 <= Len(s) /\ SubSeq(s, i, i + Len(t) - 1) = t

RECURSIVE Repeat(_, _)
Repeat(c, n) == IF n <= 0 THEN <<>> ELSE <<c>> \o Repeat(c, n - 1)

\* str.replace(old, new) with no count: every non-overlapping occurrence of
\* old, found left to right, is replaced.
RECURSIVE str_replace(_, _, _)
str_replace(s, old, new) ==
    IF Len(old) = 0 \/ Len(s) < Len(old) THEN s
    ELSE IF StartsAt(s, old, 1)
         THEN new \o str_replace(Drop(s, Len(old) + 1), old, new)
         ELSE <<Head(s)>> \o str_replace(Tail(s), old, new)

\* str.zfill(width) of a string with no sign: zeros on the left up to width.
zfill_short(s, width) == IF Len(s) >= width THEN s ELSE <<"0">> \o s

zfill(s, width) == IF Len(s) >= width THEN s ELSE Repeat("0", width - Len(s)) \o s

\* The longest run of characters of class cls that starts at s[i].
RECURSIVE RunLen(_, _, _)
RunLen(s, i, cls) ==
    IF i <= Len(s) /\ s[i] \in cls THEN 1 + RunLen(s, i + 1, cls) ELSE 0

(***************************************************************************)
(* pad_chapters.py: pad_chapter_number.                                    *)
(***************************************************************************)
NoMatch == [found |-> FALSE, start |-> 0, number |-> <<>>, whole |-> <<>>]

\* The six patterns (di)(\d+)(suffix), by their suffix, in the order tried.
pad_patterns_reversed ==
    << <<"juan">>, <<"bu", "fen">>, <<"hua">>, <<"ji">>, <<"jie">>, <<"zhang">> >>

pad_patterns ==
    << <<"zhang">>, <<"jie">>, <<"ji">>, <<"hua">>, <<"bu", "fen">>, <<"juan">> >>

\* Whether (di)(\d+)(suffix) matches at s[p]: \d+ is greedy and the suffix is
\* no digit, so the digit run is the longest one.
PadMatchAt(s, p, suffix) ==
    /\ s[p] = "di"
    /\ RunLen(s, p + 1, Digits) >= 1
    /\ StartsAt(s, suffix, p + 1 + RunLen(s, p + 1, Digits))

\* re.search of (di)(\d+)(suffix): the leftmost match.
pad_search(s, suffix) ==
    LET ps == {p \in 1..Len(s) : PadMatchAt(s, p, suffix)}
    IN  IF ps = {} THEN NoMatch
        ELSE LET p == Min(ps)
                 n == RunLen(s, p + 1, Digits)
             IN  [found |-> TRUE, start |-> p,
                  number |-> SubSeq(s, p + 1, p + n),
                  whole |-> SubSeq(s, p, p + n + Len(suffix))]

RECURSIVE pad_from(_, _)
pad_from(filename, k) ==
    IF k > Len(pad_patterns) THEN filename
    ELSE LET match == pad_search(filename, pad_patterns[k])
         IN  IF match.found
             THEN LET padded_number == zfill(match.number, 4)
                      new_chapter == <<"di">> \o padded_number \o pad_patterns[k]
                  IN  str_replace(filename, match.whole, new_chapter)
             ELSE pad_from(filename, k + 1)

pad_chapter_number(filename) == pad_from(filename, 1)

(***************************************************************************)
(* The filenames the padding engine is given: at most MaxParts parts, each *)
(* one character, a short marker of one of the six kinds, or a digit run.  *)
(***************************************************************************)
PadAlphabet == {"di", "0", "1", "zhang", "jie", "ji", "hua", "bu", "fen", "juan", "x"}

PadParts ==
    {<<c>> : c \in PadAlphabet}
    \cup {<<"di", "1">> \o pad_patterns[k] : k \in 1..Len(pad_patterns)}
    \cup {Repeat("1", n) : n \in 2..MaxDigits}

RECURSIVE Flatten(_)
Flatten(ps) == IF ps = <<>> THEN <<>> ELSE Head(ps) \o Flatten(Tail(ps))

PadInputs == {Flatten(ps) : ps \in UNION {[1..n -> PadParts] : n \in 0..MaxParts}}

(***************************************************************************)
(* chinese_to_arabic.py: chinese_to_arabic and replace_chinese_numbers.    *)
(***************************************************************************)
None == -1

\* CHINESE_NUM_MAP.get(char): the symbol's weight, None for any other character.
CHINESE_NUM_MAP(char) ==
    CASE char = "ling" -> 0
      [] char = "yi1" -> 1
      [] char = "er" -> 2
      [] char = "san" -> 3
      [] char = "si" -> 4
      [] char = "wu" -> 5
      [] char = "liu" -> 6
      [] char = "qi" -> 7
      [] char = "ba" -> 8
      [] char = "jiu" -> 9
      [] char = "shi" -> 10
      [] char = "bai" -> 100
      [] char = "qian" -> 1000
      [] char = "wan" -> 10000
      [] char = "yi4" -> 100000000
      [] OTHER -> None

\* The character class [ling yi1 ... yi4] of the three patterns.
NumeralChars ==
    {"ling", "yi1", "er", "san", "si", "wu", "liu", "qi", "ba", "jiu",
     "shi", "bai", "qian", "wan", "yi4"}

DigitValue(c) == CHOOSE d \in 0..9 : <<"0", "1", "2", "3", "4", "5", "6", "7", "8", "9">>[d + 1] = c

DigitChar(d) == <<"0", "1", "2", "3", "4", "5", "6", "7", "8", "9">>[d + 1]

\* int(s) of a string of decimal digits.
RECURSIVE ParseInt(_)
ParseInt(s) ==
    IF s = <<>> THEN 0 ELSE 10 * ParseInt(SubSeq(s, 1, Len(s) - 1)) + DigitValue(s[Len(s)])

\* str(n) of an integer n >= 0.
RECURSIVE Decimal(_)
Decimal(n) == IF n < 10 THEN <<DigitChar(n)>> ELSE Decimal(n \div 10) \o <<DigitChar(n % 10)>>

\* The loop of chinese_to_arabic over chinese_num[i:], from (total, current).
RECURSIVE c2a_loop(_, _, _, _)
c2a_loop(chinese_num, i, total, current) ==
    IF i > Len(chinese_num) THEN total + current
    ELSE LET v == CHINESE_NUM_MAP(chinese_num[i])
         IN  IF v = None THEN c2a_loop(chinese_num, i + 1, total, current)
             ELSE IF v >= 10
                  THEN c2a_loop(chinese_num, i + 1,
                                total + (IF current = 0 THEN 1 ELSE current) * v, 0)
                  ELSE c2a_loop(chinese_num, i + 1, total, v)

chinese_to_arabic(chinese_num) ==
    IF chinese_num # <<>> /\ \A i \in 1..Len(chinese_num) : chinese_num[i] \in Digits
    THEN ParseInt(chinese_num)
    ELSE c2a_loop(chinese_num, 1, 0, 0)

\* The three patterns: whether a leading di is required, the characters that
\* may follow the numeral run, and the number of groups of the pattern.
num_patterns ==
    << [di |-> TRUE, after |-> {"zhang", "jie", "ji", "hua", "bu", "fen"}, groups |-> 3],
       [di |-> FALSE, after |-> {"zhang", "jie", "ji", "hua"}, groups |-> 2],
       [di |-> FALSE, after |-> {"_", "-", " "}, groups |-> 1] >>

\* Whether the pattern matches at s[p]: the run is greedy and what follows it
\* is no numeral symbol, so the run is the longest one.
NumMatchAt(s, p, pat) ==
    LET q == IF pat.di THEN p + 1 ELSE p
        n == RunLen(s, q, NumeralChars)
    IN  /\ pat.di => s[p] = "di"
        /\ n >= 1
        /\ q + n <= Len(s)
        /\ s[q + n] \in pat.after

\* re.search of the pattern: the leftmost match and its numeral run.
num_search(s, pat) ==
    LET ps == {p \in 1..Len(s) : NumMatchAt(s, p, pat)}
    IN  IF ps = {} THEN NoMatch
        ELSE LET p == Min(ps)
                 q == IF pat.di THEN p + 1 ELSE p
                 n == RunLen(s, q, NumeralChars)
             IN  [found |-> TRUE, start |-> p,
                  number |-> SubSeq(s, q, q + n - 1),
                  whole |-> SubSeq(s, p, q + n)]

\* What a call returns: a filename, or the exception it raised.
Returned(name) == [raised |-> FALSE, name |-> name]
IndexError == [raised |-> TRUE, name |-> <<>>]

RECURSIVE rcn_from(_, _)
rcn_from(filename, k) ==
    IF k > Len(num_patterns) THEN Returned(filename)
    ELSE LET match == num_search(filename, num_patterns[k])
         IN  IF match.found
             THEN \* group(1) if len(match.groups()) == 2 else group(2): the numeral
                  \* run is group 2 of the first pattern and group 1 of the second;
                  \* the third pattern has no group 2.
                  IF num_patterns[k].groups = 1 THEN IndexError
                  ELSE Returned(str_replace(filename, match.number,
                                            Decimal(chinese_to_arabic(match.number))))
             ELSE rcn_from(filename, k + 1)

replace_chinese_numbers(filename) == rcn_from(filename, 1)

(***************************************************************************)
(* The filenames the numeral engine is given, built like PadInputs.        *)
(***************************************************************************)
NumAlphabet ==
    {"di", "yi1", "er", "shi", "bai", "zhang", "jie", "bu", "fen", "_", "-", " ", "1", "x"}

NumParts ==
    {<<c>> : c \in NumAlphabet}
    \cup {<<"di", "yi1", "zhang">>, <<"di", "er", "zhang">>, <<"di", "yi1", "bu", "fen">>}

NumInputs == {Flatten(ps) : ps \in UNION {[1..n -> NumParts] : n \in 0..MaxParts}}

(***************************************************************************)
(* The spelled-out numerals: the usual spelling of an integer below 10^8,  *)
(* section by section (the reference the conversion is compared with).     *)
(***************************************************************************)
NumeralDigit(d) == <<"yi1", "er", "san", "si", "wu", "liu", "qi", "ba", "jiu">>[d]

\* A section 1..9999; lead says the section opens the numeral, where 10..19
\* are spelled shi, shi yi1, ... and not yi1 shi.
Spell4(n, lead) ==
    LET q == n \div 1000
        h == (n \div 100) % 10
        t == (n \div 10) % 10
        u == n % 10
    IN  (IF q > 0 THEN <<NumeralDigit(q), "qian">> ELSE <<>>)
        \o (IF h > 0 THEN <<NumeralDigit(h), "bai">>
            ELSE IF q > 0 /\ (t > 0 \/ u > 0) THEN <<"ling">> ELSE <<>>)
        \o (IF t > 0
            THEN (IF t = 1 /\ q = 0 /\ h = 0 /\ lead THEN <<"shi">>
                  ELSE <<NumeralDigit(t), "shi">>)
            ELSE IF h > 0 /\ u > 0 THEN <<"ling">> ELSE <<>>)
        \o (IF u > 0 THEN <<NumeralDigit(u)>> ELSE <<>>)

Spell(n) ==
    IF n = 0 THEN <<"ling">>
    ELSE IF n < 10000 THEN Spell4(n, TRUE)
    ELSE LET hi == n \div 10000
             lo == n % 10000
         IN  Spell4(hi, TRUE) \o <<"wan">>
             \o (IF lo = 0 THEN <<>>
                 ELSE (IF lo < 1000 THEN <<"ling">> ELSE <<>>) \o Spell4(lo, FALSE))

Values ==
    (0..MaxValue)
    \cup {k * 1000 + 1 : k \in 1..MaxValue \div 10}
    \cup {k * 10000 : k \in 1..MaxValue \div 10}

(***************************************************************************)
(* The engines as state machines: a filename is drawn, and the engine is   *)
(* applied to it and then to its own result.                               *)
(***************************************************************************)
EngineIdle == fname = <<>> /\ outs = <<>>

ConvIdle == value = 0 /\ numeral = <<>> /\ arabic = None

RunIdle ==
    /\ tool = "none" /\ posix = TRUE /\ valid_dir = TRUE /\ dry_run = FALSE
    /\ workers = 0 /\ exclude = {} /\ denied = {} /\ fs0 = {} /\ fs = {} /\ file_list = <<>>
    /\ tstate = <<>> /\ result = <<>> /\ consumed = 0 /\ changed_count = 0
    /\ error_count = 0 /\ log_entries = <<>> /\ returned = <<>> /\ pc = "idle"
    /\ exit_code = -1

\* The name the next application is given.
PadCurrent == IF outs = <<>> THEN fname ELSE outs[Len(outs)]

InitPad == fname \in PadInputs /\ outs = <<>> /\ ConvIdle /\ RunIdle

Pad ==
    /\ Len(outs) < MaxApply
    /\ outs' = Append(outs, pad_chapter_number(PadCurrent))
    /\ UNCHANGED <<fname, conv_vars, run_vars>>

NextPad == Pad

SpecPad == InitPad /\ [][NextPad]_vars

NumCurrent == IF outs = <<>> THEN fname ELSE outs[Len(outs)].name

InitNum == fname \in NumInputs /\ outs = <<>> /\ ConvIdle /\ RunIdle

\* A second application is made only of a name the first one returned.
Normalize ==
    /\ Len(outs) < MaxApply
    /\ outs # <<>> => ~outs[Len(outs)].raised
    /\ outs' = Append(outs, replace_chinese_numbers(NumCurrent))
    /\ UNCHANGED <<fname, conv_vars, run_vars>>

NextNum == Normalize

SpecNum == InitNum /\ [][NextNum]_vars

\* A spelled-out numeral, alone and as di + numeral + zhang + .txt.
InitConv ==
    /\ value \in Values
    /\ numeral = Spell(value)
    /\ arabic = None
    /\ fname = <<"di">> \o Spell(value) \o <<"zhang", ".txt">>
    /\ outs = <<>>
    /\ RunIdle

Convert ==
    /\ arabic = None
    /\ arabic' = chinese_to_arabic(numeral)
    /\ UNCHANGED <<value, numeral, engine_vars, run_vars>>

NormalizeNumeral ==
    /\ outs = <<>>
    /\ outs' = <<replace_chinese_numbers(fname)>>
    /\ UNCHANGED <<fname, conv_vars, run_vars>>

NextConv == Convert \/ NormalizeNumeral

SpecConv == InitConv /\ [][NextConv]_vars

(***************************************************************************)
(* The run of either tool: main, convert_filenames / pad_filenames, and    *)
(* process_file on the workers of the pool.  The directory is flat; the    *)
(* log file, which none of the variables below depends on, is left out.    *)
(***************************************************************************)
supported_extensions == {".mp3", ".wav", ".flac", ".m4a", ".ogg", ".aac", ".txt"}

\* Path(file).suffix.lower() in supported_extensions.
Supported(name) == name # <<>> /\ name[Len(name)] \in supported_extensions

\* The directory entries a run of the numeral tool may start with.
NumeralNames ==
    { <<"di", "yi1", "zhang", "di", "er", "zhang", ".txt">>,
      <<"di", "1", "zhang", "di", "er", "zhang", ".txt">>,
      <<"di", "yi1", "zhang", ".txt">>,
      <<"di", "ling", "yi1", "zhang", ".txt">>,
      <<"di", "1", "zhang", ".txt">>,
      <<"yi1", "_", "x", ".txt">>,
      <<"di", "yi1", "zhang", ".jpg">> }

\* The directory entries a run of the padding tool may start with.
PadNames ==
    { <<"di", "1", "zhang", ".txt">>,
      <<"di", "0", "1", "zhang", ".txt">>,
      <<"di", "0", "0", "0", "1", "zhang", ".txt">>,
      <<"di", "1", "zhang", ".jpg">> }

Small(S, n) == {T \in SUBSET S : Cardinality(T) <= n}

\* Every ordering of the names of S.
Orderings(S) ==
    {l \in [1..Cardinality(S) -> S] : \A i, j \in 1..Cardinality(S) : i # j => l[i] # l[j]}

Present(dir, name) == \E e \in dir : e[1] = name

\* os.rename(src, dst): the exception it raises ("None" for none) and the
\* directory after it.  An existing destination is replaced on POSIX and
\* refused on Windows.
os_rename(dir, src, dst, on_posix, refused) ==
    IF ~Present(dir, src) THEN [error |-> "FileNotFoundError", dir |-> dir]
    ELSE IF src \in refused THEN [error |-> "PermissionError", dir |-> dir]
    ELSE IF Present(dir, dst) /\ ~on_posix THEN [error |-> "FileExistsError", dir |-> dir]
    ELSE [error |-> "None",
          dir |-> {e \in dir : e[1] # src /\ e[1] # dst}
                  \cup {<<dst, e[2]>> : e \in {d \in dir : d[1] = src}}]

\* The engine of the tool that runs.
Transform(which, filename) ==
    IF which = "numeral" THEN replace_chinese_numbers(filename)
    ELSE Returned(pad_chapter_number(filename))

NoName == <<>>

\* process_file: whether it raised, the tuple it returned and the directory
\* after it.
process_file(which, dir, file_path, is_dry_run, on_posix, refused) ==
    LET new_name == Transform(which, file_path)
    IN  IF new_name.raised
        THEN [raised |-> TRUE, dir |-> dir,
              ret |-> [src |-> file_path, dst |-> NoName, changed |-> FALSE, error |-> "None"]]
        ELSE IF new_name.name # file_path
        THEN IF ~is_dry_run
             THEN LET r == os_rename(dir, file_path, new_name.name, on_posix, refused)
                  IN  IF r.error = "None"
                      THEN [raised |-> FALSE, dir |-> r.dir,
                            ret |-> [src |-> file_path, dst |-> new_name.name,
                                     changed |-> TRUE, error |-> "None"]]
                      ELSE [raised |-> FALSE, dir |-> dir,
                            ret |-> [src |-> file_path, dst |-> NoName,
                                     changed |-> FALSE, error |-> r.error]]
             ELSE [raised |-> FALSE, dir |-> dir,
                   ret |-> [src |-> file_path, dst |-> new_name.name,
                            changed |-> TRUE, error |-> "None"]]
        ELSE [raised |-> FALSE, dir |-> dir,
              ret |-> [src |-> file_path, dst |-> file_path, changed |-> FALSE, error |-> "None"]]

\* The body of the dispatcher's loop for one result: the counters and the
\* log after it.
Tally(ret, is_dry_run, changed, errors, log) ==
    IF ret.changed
    THEN IF is_dry_run
         THEN [changed |-> changed + 1, errors |-> errors,
               log |-> Append(log, [kind |-> "dry", src |-> ret.src, dst |-> ret.dst])]
         ELSE IF ret.error # "None"
              THEN [changed |-> changed + 1, errors |-> errors + 1,
                    log |-> Append(log, [kind |-> "error", src |-> ret.src, dst |-> ret.dst])]
              ELSE [changed |-> changed + 1, errors |-> errors,
                    log |-> Append(log, [kind |-> "renamed", src |-> ret.src, dst |-> ret.dst])]
    ELSE [changed |-> changed, errors |-> errors, log |-> log]

NoResult == [src |-> NoName, dst |-> NoName, changed |-> FALSE, error |-> "None"]

InitRun ==
    /\ tool \in {"numeral", "pad"}
    /\ fs0 \in Small(IF tool = "numeral" THEN NumeralNames ELSE PadNames, MaxFiles)
    /\ fs = {<<n, n>> : n \in fs0}
    /\ posix \in BOOLEAN
    /\ valid_dir \in BOOLEAN
    /\ dry_run \in BOOLEAN
    /\ workers \in 0..MaxWorkers
    \* only chinese_to_arabic.py has --exclude
    /\ exclude \in (IF tool = "numeral" THEN Small(fs0, 1) ELSE {{}})
    /\ denied \in Small(fs0, 1)
    /\ file_list = <<>> /\ tstate = <<>> /\ result = <<>> /\ consumed = 0
    /\ changed_count = 0 /\ error_count = 0 /\ log_entries = <<>>
    /\ returned = <<>> /\ pc = "main" /\ exit_code = -1
    /\ EngineIdle /\ ConvIdle

inputs == <<tool, posix, valid_dir, dry_run, workers, exclude, denied, fs0>>

\* main: is_valid_directory(target_dir) is false, sys.exit(1).
InvalidDirectory ==
    /\ pc = "main" /\ ~valid_dir
    /\ pc' = "exited" /\ exit_code' = 1
    /\ UNCHANGED <<inputs, fs, file_list, tstate, result, consumed, changed_count,
                   error_count, log_entries, returned, engine_vars, conv_vars>>

\* main calls the run; os.walk lists the supported files in some order.
\* No file: return 0, log_entries.
WalkEmpty ==
    /\ pc = "main" /\ valid_dir
    /\ {e \in fs : Supported(e[1])} = {}
    /\ returned' = <<0, [list |-> TRUE, count |-> 0, entries |-> log_entries]>>
    /\ pc' = "report"
    /\ UNCHANGED <<inputs, fs, file_list, tstate, result, consumed, changed_count,
                   error_count, log_entries, exit_code, engine_vars, conv_vars>>

\* ThreadPoolExecutor(max_workers) raises ValueError for max_workers <= 0;
\* nothing catches it.
WalkNoWorkers ==
    /\ pc = "main" /\ valid_dir
    /\ {e \in fs : Supported(e[1])} # {}
    /\ workers <= 0
    /\ \E l \in Orderings({e[1] : e \in {d \in fs : Supported(d[1])}}) : file_list' = l
    /\ pc' = "exited" /\ exit_code' = 1
    /\ UNCHANGED <<inputs, fs, tstate, result, consumed, changed_count,
                   error_count, log_entries, returned, engine_vars, conv_vars>>

\* executor.map submits one task per file of the list.
WalkSubmit ==
    /\ pc = "main" /\ valid_dir
    /\ {e \in fs : Supported(e[1])} # {}
    /\ workers > 0
    /\ \E l \in Orderings({e[1] : e \in {d \in fs : Supported(d[1])}}) :
          /\ file_list' = l
          /\ tstate' = [i \in 1..Len(l) |-> "queued"]
          /\ result' = [i \in 1..Len(l) |-> NoResult]
    /\ pc' = "collect"
    /\ UNCHANGED <<inputs, fs, consumed, changed_count, error_count, log_entries,
                   returned, exit_code, engine_vars, conv_vars>>

Running == {i \in 1..Len(tstate) : tstate[i] = "running"}
Queued == {i \in 1..Len(tstate) : tstate[i] = "queued"}

\* A free worker takes the first task of the queue.
Start(i) ==
    /\ pc \in {"collect", "unwind"}
    /\ i \in Queued /\ i = Min(Queued)
    /\ Cardinality(Running) < workers
    /\ tstate' = [tstate EXCEPT ![i] = "running"]
    /\ UNCHANGED <<inputs, fs, file_list, result, consumed, changed_count, error_count,
                   log_entries, returned, pc, exit_code, engine_vars, conv_vars>>

\* The worker runs process_file on its task.
Run(i) ==
    /\ pc \in {"collect", "unwind"}
    /\ i \in Running
    /\ LET r == process_file(tool, fs, file_list[i], dry_run, posix, denied)
       IN  /\ tstate' = [tstate EXCEPT ![i] = IF r.raised THEN "raised" ELSE "done"]
           /\ result' = [result EXCEPT ![i] = r.ret]
           /\ fs' = r.dir
    /\ UNCHANGED <<inputs, file_list, consumed, changed_count, error_count,
                   log_entries, returned, pc, exit_code, engine_vars, conv_vars>>

\* The dispatcher reads the next result, in the order of the list.
Collect ==
    /\ pc = "collect"
    /\ consumed < Len(file_list)
    /\ tstate[consumed + 1] = "done"
    /\ LET t == Tally(result[consumed + 1], dry_run, changed_count, error_count, log_entries)
       IN  /\ changed_count' = t.changed
           /\ error_count' = t.errors
           /\ log_entries' = t.log
    /\ consumed' = consumed + 1
    /\ UNCHANGED <<inputs, fs, file_list, tstate, result, returned, pc, exit_code,
                   engine_vars, conv_vars>>

\* The next result is an exception: it leaves the loop, and the iterator
\* cancels the tasks no worker has taken yet.
CollectRaise ==
    /\ pc = "collect"
    /\ consumed < Len(file_list)
    /\ tstate[consumed + 1] = "raised"
    /\ pc' = "unwind"
    /\ UNCHANGED <<inputs, fs, file_list, tstate, result, consumed, changed_count,
                   error_count, log_entries, returned, exit_code, engine_vars, conv_vars>>

Cancel(i) ==
    /\ pc = "unwind"
    /\ i \in Queued
    /\ tstate' = [tstate EXCEPT ![i] = "cancelled"]
    /\ UNCHANGED <<inputs, fs, file_list, result, consumed, changed_count, error_count,
                   log_entries, returned, pc, exit_code, engine_vars, conv_vars>>

\* The pool has shut down; the exception reaches the top of main.
Crash ==
    /\ pc = "unwind"
    /\ Queued = {} /\ Running = {}
    /\ pc' = "exited" /\ exit_code' = 1
    /\ UNCHANGED <<inputs, fs, file_list, tstate, result, consumed, changed_count,
                   error_count, log_entries, returned, engine_vars, conv_vars>>

\* Every result is read: return changed_count, error_count.
Return ==
    /\ pc = "collect"
    /\ consumed = Len(file_list)
    /\ returned' = <<changed_count, [list |-> FALSE, count |-> error_count, entries |-> <<>>]>>
    /\ pc' = "report"
    /\ UNCHANGED <<inputs, fs, file_list, tstate, result, consumed, changed_count,
                   error_count, log_entries, exit_code, engine_vars, conv_vars>>

\* main: changed, errors = ...; if errors > 0: ...  A list compared with 0
\* raises TypeError; otherwise main runs to its end.
Report ==
    /\ pc = "report"
    /\ exit_code' = IF returned[2].list THEN 1 ELSE 0
    /\ pc' = "exited"
    /\ UNCHANGED <<inputs, fs, file_list, tstate, result, consumed, changed_count,
                   error_count, log_entries, returned, engine_vars, conv_vars>>

NextRun ==
    \/ InvalidDirectory
    \/ WalkEmpty
    \/ WalkNoWorkers
    \/ WalkSubmit
    \/ \E i \in 1..Len(tstate) : Start(i)
    \/ \E i \in 1..Len(tstate) : Run(i)
    \/ Collect
    \/ CollectRaise
    \/ \E i \in 1..Len(tstate) : Cancel(i)
    \/ Crash
    \/ Return
    \/ Report

SpecRun == InitRun /\ [][NextRun]_vars

(***************************************************************************)
(* What the claims speak of, stated on the filename itself.                *)
(***************************************************************************)
\* The unit keywords of the padding rule, in their priority order.
UnitKeywords ==
    << <<"zhang">>, <<"jie">>, <<"ji">>, <<"hua">>, <<"bu", "fen">>, <<"juan">> >>

\* f holds, at p, the marker di + n digits + keyword.
IsMarker(f, p, n, keyword) ==
    /\ f[p] = "di"
    /\ p + n <= Len(f)
    /\ \A i \in 1..n : f[p + i] \in Digits
    /\ StartsAt(f, keyword, p + n + 1)

HasMarker(f, k) ==
    \E p \in 1..Len(f) : \E n \in 1..Len(f) - p : IsMarker(f, p, n, UnitKeywords[k])

\* The marker at p is the leftmost one of the first kind that f holds.
Chosen(f, k, p, n) ==
    /\ IsMarker(f, p, n, UnitKeywords[k])
    /\ \A j \in 1..k - 1 : ~HasMarker(f, j)
    /\ \A q \in 1..p - 1 : \A m \in 1..Len(f) - q : ~IsMarker(f, q, m, UnitKeywords[k])

\* The maximal digit runs of s, left to right.
RECURSIVE DigitRuns(_)
DigitRuns(s) ==
    IF s = <<>> THEN <<>>
    ELSE IF s[1] \in Digits
         THEN LET n == RunLen(s, 1, Digits)
              IN  <<SubSeq(s, 1, n)>> \o DigitRuns(Drop(s, n + 1))
         ELSE DigitRuns(Tail(s))

\* Every digit run of f is in r as it was, or, shorter than 4, padded to 4.
RunsKept(f, r) ==
    LET a == DigitRuns(f)
        b == DigitRuns(r)
    IN  /\ Len(a) = Len(b)
        /\ \A i \in 1..Len(a) :
              \/ b[i] = a[i]
              \/ Len(a[i]) < 4 /\ b[i] = Repeat("0", 4 - Len(a[i])) \o a[i]

\* The name application i of the padding engine was given.
PadGiven(i) == IF i = 1 THEN fname ELSE outs[i - 1]

\* C5: pad_chapter_number is idempotent: applied to its own result it
\* returns that result, whatever markers the filename holds.
PadIdempotent == \A i \in 2..Len(outs) : outs[i] = outs[i - 1]

\* C5, the case: a filename with markers of two kinds, padded and then
\* given to the engine again.
PadIdempotentWitness ==
    /\ Len(outs) >= 2
    /\ outs[1] # fname
    /\ \E j \in 1..Len(UnitKeywords) : \E k \in 1..Len(UnitKeywords) :
          j # k /\ HasMarker(fname, j) /\ HasMarker(fname, k)

\* C6: the marker padded is the leftmost one of the first kind, in the order
\* zhang, jie, ji, hua, bu fen, juan, that the filename holds; with fewer than
\* 4 digits it is in the result with its digits zero-padded to exactly 4, and
\* with 4 or more the result is the input; no digit run of 4 or more digits is
\* altered and none is made shorter.
PaddingRule ==
    outs # <<>> =>
        LET f == PadGiven(Len(outs))
            r == outs[Len(outs)]
        IN  /\ \A p \in 1..Len(f) :
                  f[p] = "di" =>
                      \A n \in 1..Len(f) - p : \A k \in 1..Len(UnitKeywords) :
                          Chosen(f, k, p, n) =>
                              IF n < 4
                              THEN /\ SubSeq(r, 1, p - 1) = SubSeq(f, 1, p - 1)
                                   /\ StartsAt(r, <<"di">> \o Repeat("0", 4 - n)
                                                  \o SubSeq(f, p + 1, p + n)
                                                  \o UnitKeywords[k], p)
                              ELSE r = f
            /\ RunsKept(f, r)

\* C6, the case: a marker of a lower-priority kind stands before the one that
\* is chosen, and the chosen one is padded.
PaddingRuleWitness ==
    /\ Len(outs) >= 1
    /\ outs[1] # fname
    /\ \E k \in 1..Len(UnitKeywords) : \E p \in 1..Len(fname) : \E n \in 1..3 :
          /\ Chosen(fname, k, p, n)
          /\ \E j \in k + 1..Len(UnitKeywords) : \E q \in 1..p - 1 : \E m \in 1..Len(fname) :
                IsMarker(fname, q, m, UnitKeywords[j])

(***************************************************************************)
(* The numeral engine's claims.                                            *)
(***************************************************************************)
\* s with its first occurrence of old replaced by new.
RECURSIVE ReplaceFirst(_, _, _)
ReplaceFirst(s, old, new) ==
    IF Len(s) < Len(old) THEN s
    ELSE IF StartsAt(s, old, 1) THEN new \o Drop(s, Len(old) + 1)
    ELSE <<Head(s)>> \o ReplaceFirst(Tail(s), old, new)

\* The match of the first pattern that matches f, NoMatch when none does.
RECURSIVE FirstMatch(_, _)
FirstMatch(f, k) ==
    IF k > Len(num_patterns) THEN NoMatch
    ELSE IF num_search(f, num_patterns[k]).found THEN num_search(f, num_patterns[k])
    ELSE FirstMatch(f, k + 1)

\* The name application i of the numeral engine was given.
NumGiven(i) == IF i = 1 THEN fname ELSE outs[i - 1].name

\* C1: replace_chinese_numbers is idempotent: for every filename it returns a
\* name, and applied to that name it returns it again.
NormalizeIdempotent ==
    \A i \in 1..Len(outs) : ~outs[i].raised /\ (i >= 2 => outs[i] = outs[i - 1])

\* C2: when a pattern matches, the result is the input with only the first
\* occurrence of the matched numeral replaced by its decimal string; every
\* later occurrence is as in the input.  (Stated of the calls that return.)
OnlyFirstOccurrenceReplaced ==
    \A i \in 1..Len(outs) :
        LET f == NumGiven(i)
            m == FirstMatch(f, 1)
        IN  (m.found /\ ~outs[i].raised) =>
                outs[i].name = ReplaceFirst(f, m.number, Decimal(chinese_to_arabic(m.number)))

\* A numeral run of f ends just before position e.
RunEndsAt(f, e) == e >= 2 /\ e <= Len(f) /\ f[e - 1] \in NumeralChars

\* The three marker forms: di + numeral + zhang, jie, ji, hua or bu fen;
\* numeral + zhang, jie, ji or hua; numeral + underscore, hyphen or space.
MarkerForm1(f) ==
    \E p \in 1..Len(f) : \E e \in p + 2..Len(f) :
        /\ f[p] = "di"
        /\ \A i \in p + 1..e - 1 : f[i] \in NumeralChars
        /\ (f[e] \in {"zhang", "jie", "ji", "hua"} \/ StartsAt(f, <<"bu", "fen">>, e))

MarkerForm2(f) == \E e \in 1..Len(f) : RunEndsAt(f, e) /\ f[e] \in {"zhang", "jie", "ji", "hua"}

MarkerForm3(f) == \E e \in 1..Len(f) : RunEndsAt(f, e) /\ f[e] \in {"_", "-", " "}

\* C4: a filename that holds none of the three marker forms is returned
\* unchanged.
NoMarkerNoChange ==
    (Len(outs) >= 1 /\ ~MarkerForm1(fname) /\ ~MarkerForm2(fname) /\ ~MarkerForm3(fname))
        => outs[1] = Returned(fname)

\* C3: chinese_to_arabic returns the value of every well-formed numeral, and
\* di + numeral + zhang + .txt is normalized to di + decimal(value) + zhang + .txt.
NumeralValue ==
    /\ arabic # None => arabic = value
    /\ outs # <<>> => outs[1] = Returned(<<"di">> \o Decimal(value) \o <<"zhang", ".txt">>)

(***************************************************************************)
(* The run's claims.                                                       *)
(***************************************************************************)
\* The run returned its two counters.
Completed == returned # <<>> /\ ~returned[2].list

\* C7: in a run that is no dry run, every file whose os.rename raised has an
\* error entry in the log, and the error count returned is their number.
RenameFailuresCounted ==
    (Completed /\ ~dry_run) =>
        /\ returned[2].count = Cardinality({i \in 1..Len(result) : result[i].error # "None"})
        /\ \A i \in 1..Len(result) :
              result[i].error # "None" =>
                  \E j \in 1..Len(log_entries) :
                      log_entries[j].kind = "error" /\ log_entries[j].src = result[i].src

\* C8: the process exits with 1 exactly when the target directory is not a
\* valid accessible directory, and with 0 otherwise, whatever the directory
\* holds.  (Stated of the runs given a positive worker count.)
ExitStatus ==
    (pc = "exited" /\ workers > 0) => /\ exit_code \in {0, 1}
                                      /\ exit_code = 1 <=> ~valid_dir

\* C9: no file whose name matches an --exclude pattern is renamed, or
\* reported as to be renamed in a dry run.
ExcludedUntouched ==
    /\ \A i \in 1..Len(result) : result[i].src \in exclude => ~result[i].changed
    /\ \A j \in 1..Len(log_entries) : log_entries[j].src \notin exclude

\* The run with the files processed one after the other, in the order of the
\* list: the directory and the counters after it.
RECURSIVE SeqRun(_, _, _, _)
SeqRun(i, dir, changed, errors) ==
    IF i > Len(file_list) THEN [dir |-> dir, changed |-> changed, errors |-> errors]
    ELSE LET r == process_file(tool, dir, file_list[i], dry_run, posix, denied)
             t == Tally(r.ret, dry_run, changed, errors, <<>>)
         IN  SeqRun(i + 1, r.dir, t.changed, t.errors)

\* C10: the directory and the counters after a run that is no dry run are
\* those of every other interleaving of the workers, the one-after-the-other
\* run included.
OrderIndependent ==
    (Completed /\ ~dry_run) =>
        LET s == SeqRun(1, {<<n, n>> : n \in fs0}, 0, 0)
        IN  /\ fs = s.dir
            /\ returned[1] = s.changed
            /\ returned[2].count = s.errors

====
